---------------------------- MODULE Spec2Model ----------------------------
(***************************************************************************)
(* A model of the Jewel vector abstraction of triple_accel and of its      *)
(* AVX2 realisation AvxNx32x8 (src/src/jewel.rs).                          *)
(*                                                                         *)
(* Memory behind a raw pointer, and a [u8; 32], is a sequence of bytes      *)
(* 0..255, *ptr.offset(i) being ptr[i + 1].  A __m256i is the sequence of  *)
(* the 32 bytes a store of it writes, lowest address first.  A             *)
(* Vec<__m256i> is a sequence of such words, the code's index i being the  *)
(* sequence's index i + 1.                                                 *)
(***************************************************************************)
EXTENDS Integers, Sequences, FiniteSets

VARIABLES
    self,   \* the AvxNx32x8 the in-place operations act on
    a,      \* blendv's first operand
    b,      \* blendv's second operand
    pre,    \* self, a and b as they were when the last operation was called
    pre2,   \* self as it was when the operation before the last was called
    op,     \* the last operation called on self, with its arguments
    op2,    \* the name of the operation called before the last
    nops,   \* the number of in-place operations called since construction
    cnt,    \* the mismatch kernels: their arguments and what they returned
    tml     \* triple_min_length: its eight vectors, before and after the call

vars == <<self, a, b, pre, pre2, op, op2, nops, cnt, tml>>

(***************************************************************************)
(* Integer conversions and the scalar pieces of the code.                  *)
(***************************************************************************)

\* The number of byte lanes of one __m256i.
LaneCount == 32

\* `x as u8` and `x as i8`: the low eight bits, kept as the byte 0..255.
AsByte(x) == x % 256

\* The value an epi8 instruction reads in a byte: two's complement.
AsI8(x) == IF x >= 128 THEN x - 256 ELSE x

\* x >> 5
Shr5(x) == x \div 32

\* x << 5
Shl5(x) == x * 32

\* x & 31
And31(x) == x % 32

\* *ptr.offset(i)
Deref(ptr, i) == ptr[i + 1]

\* *v.get_unchecked(i)
Word(v, i) == v[i + 1]

\* *v.get_unchecked_mut(i) = w
SetWord(v, i, w) == [v EXCEPT ![i + 1] = w]

\* (len >> 5) + if (len & 31) > 0 {1} else {0}
WordCount(len) == Shr5(len) + (IF And31(len) > 0 THEN 1 ELSE 0)

(***************************************************************************)
(* The AVX2 instructions the code uses, by what they compute.              *)
(***************************************************************************)

mm256_setzero_si256 == [k \in 1 .. LaneCount |-> 0]

mm256_set1_epi8(x) == [k \in 1 .. LaneCount |-> AsByte(x)]

\* Loads the 32 bytes at ptr + off.
mm256_loadu_si256(ptr, off) == [k \in 1 .. LaneCount |-> ptr[off + k]]

\* Stores the word into a [u8; 32]: the array it leaves.
mm256_storeu_si256(w) == [k \in 1 .. LaneCount |-> w[k]]

mm256_cmpeq_epi8(x, y) ==
    [k \in 1 .. LaneCount |-> IF x[k] = y[k] THEN 255 ELSE 0]

mm256_cmpgt_epi8(x, y) ==
    [k \in 1 .. LaneCount |-> IF AsI8(x[k]) > AsI8(y[k]) THEN 255 ELSE 0]

\* The minimum of the bytes as unsigned numbers (_mm256_min_epu8).
MinEpu8(x, y) ==
    [k \in 1 .. LaneCount |-> IF x[k] < y[k] THEN x[k] ELSE y[k]]

mm256_min_epi8(x, y) ==
    [k \in 1 .. LaneCount |-> IF AsI8(x[k]) < AsI8(y[k]) THEN x[k] ELSE y[k]]

mm256_max_epi8(x, y) ==
    [k \in 1 .. LaneCount |-> IF AsI8(x[k]) > AsI8(y[k]) THEN x[k] ELSE y[k]]

mm256_add_epi8(x, y) ==
    [k \in 1 .. LaneCount |-> (x[k] + y[k]) % 256]

\* A signed sum kept within -128 .. 127, as the byte that stands for it.
SaturateI8(sum) ==
    IF sum > 127 THEN 127 ELSE IF sum < -128 THEN 128 ELSE (sum + 256) % 256

mm256_adds_epi8(x, y) ==
    [k \in 1 .. LaneCount |-> SaturateI8(AsI8(x[k]) + AsI8(y[k]))]

\* The bitwise and of the low n bits of two numbers.
RECURSIVE BitAnd(_, _, _)
BitAnd(x, y, n) ==
    IF n = 0 THEN 0
    ELSE (x % 2) * (y % 2) + 2 * BitAnd(x \div 2, y \div 2, n - 1)

mm256_and_si256(x, y) ==
    [k \in 1 .. LaneCount |-> BitAnd(x[k], y[k], 8)]

mm256_sub_epi8(x, y) ==
    [k \in 1 .. LaneCount |-> (x[k] - y[k] + 256) % 256]

\* A blend that selects on the whole mask byte instead of its top bit.
BlendvNonZeroMask(x, y, mask) ==
    [k \in 1 .. LaneCount |-> IF mask[k] # 0 THEN y[k] ELSE x[k]]

\* Byte j of the result is y's where the mask byte's top bit is set, else x's.
mm256_blendv_epi8(x, y, mask) ==
    [k \in 1 .. LaneCount |-> IF mask[k] >= 128 THEN y[k] ELSE x[k]]

mm256_insert_epi8(x, val, index) == [x EXCEPT ![index + 1] = AsByte(val)]

\* One 128-bit half chosen by a 4-bit control: bit 3 zeroes it, bits 1:0
\* choose x low, x high, y low, y high.  Byte j (0..15) of the chosen half.
PermuteHalf(x, y, ctrl, j) ==
    IF (ctrl \div 8) % 2 = 1 THEN 0
    ELSE CASE ctrl % 4 = 0 -> Deref(x, j)
           [] ctrl % 4 = 1 -> Deref(x, j + 16)
           [] ctrl % 4 = 2 -> Deref(y, j)
           [] ctrl % 4 = 3 -> Deref(y, j + 16)

mm256_permute2x128_si256(x, y, imm) ==
    [k \in 1 .. LaneCount |->
        IF k - 1 < 16 THEN PermuteHalf(x, y, imm % 16, k - 1)
        ELSE PermuteHalf(x, y, (imm \div 16) % 16, k - 1 - 16)]

\* In each 128-bit half: the 32 bytes x_half:y_half (y low) shifted right by
\* n bytes, the low 16 kept.
mm256_alignr_epi8(x, y, n) ==
    [k \in 1 .. LaneCount |->
        LET j    == (k - 1) % 16
            base == (k - 1) - j
        IN  IF j + n < 16 THEN Deref(y, base + j + n)
            ELSE IF j + n < 32 THEN Deref(x, base + j + n - 16)
            ELSE 0]

\* The 32 bits of the i32 movemask returns, bit j being the top bit of byte j.
mm256_movemask_epi8(x) == [k \in 1 .. LaneCount |-> IF x[k] >= 128 THEN 1 ELSE 0]

\* i32::count_ones of those bits.
count_ones(bits) == Cardinality({k \in 1 .. LaneCount : bits[k] = 1})

AbsDiff(x, y) == IF x >= y THEN x - y ELSE y - x

\* The sum of the absolute differences of bytes j .. 7 of the 64-bit lane that
\* starts at byte base.
RECURSIVE SadSum(_, _, _, _)
SadSum(x, y, base, j) ==
    IF j >= 8 THEN 0
    ELSE AbsDiff(Deref(x, base + j), Deref(y, base + j)) + SadSum(x, y, base, j + 1)

\* Each 64-bit lane holds the sum of the absolute differences of its eight
\* bytes: at most 8 * 255, in its two low bytes.
mm256_sad_epu8(x, y) ==
    [k \in 1 .. LaneCount |->
        LET j   == (k - 1) % 8
            sum == SadSum(x, y, (k - 1) - j, 0)
        IN  CASE j = 0 -> sum % 256
              [] j = 1 -> (sum \div 256) % 256
              [] OTHER -> 0]

\* The carry into byte j of the 64-bit lane that starts at byte base.
RECURSIVE AddCarry(_, _, _, _)
AddCarry(x, y, base, j) ==
    IF j = 0 THEN 0
    ELSE (Deref(x, base + j - 1) + Deref(y, base + j - 1)
          + AddCarry(x, y, base, j - 1)) \div 256

\* Four 64-bit additions, each wrapping within its lane.
mm256_add_epi64(x, y) ==
    [k \in 1 .. LaneCount |->
        LET j == (k - 1) % 8
        IN  (x[k] + y[k] + AddCarry(x, y, (k - 1) - j, j)) % 256]

\* Element m of the [u32; 8] a word is stored into (little-endian).
U32At(w, m) ==
    Deref(w, 4 * m) + 256 * Deref(w, 4 * m + 1) + 65536 * Deref(w, 4 * m + 2)
        + 16777216 * Deref(w, 4 * m + 3)

(***************************************************************************)
(* AvxNx32x8: construction, loads and scalar access.                       *)
(***************************************************************************)

\* The first loop of loadu: the word_len whole words of the source, word i
\* pushed at index i.
LoaduWords(ptr, word_len) ==
    [w \in 1 .. word_len |-> mm256_loadu_si256(ptr, Shl5(w - 1))]

\* A last word loaded whole from the source, with no zeroed array in between.
LoaduTailUnpadded(ptr, word_len, word_rem) ==
    [k \in 1 .. LaneCount |-> Deref(ptr, Shl5(word_len) + (k - 1))]

\* The second loop of loadu: a zeroed [u8; 32] with the word_rem bytes at
\* end_ptr copied into its front.
LoaduTail(ptr, word_len, word_rem) ==
    [k \in 1 .. LaneCount |->
        IF k - 1 < word_rem THEN Deref(ptr, Shl5(word_len) + (k - 1)) ELSE 0]

loadu(ptr, len) ==
    LET word_len == Shr5(len)
        word_rem == And31(len)
        full     == LoaduWords(ptr, word_len)
    IN  [len |-> len,
         v   |-> IF word_rem > 0
                 THEN Append(full, mm256_loadu_si256(
                                  LoaduTail(ptr, word_len, word_rem), 0))
                 ELSE full]

\* A broadcast that allocates the whole words of len only, without the word
\* for the len & 31 lanes left over.
RepeatingWholeWords(val, len) ==
    [len |-> len, v |-> [i \in 1 .. Shr5(len) |-> mm256_set1_epi8(val)]]

repeating(val, len) ==
    [len |-> len, v |-> [i \in 1 .. WordCount(len) |-> mm256_set1_epi8(val)]]

\* 127i8
SentinelMax == 127

repeating_max(len) ==
    [len |-> len, v |-> [i \in 1 .. WordCount(len) |-> mm256_set1_epi8(SentinelMax)]]

upper_bound(x) == Shl5(Len(x.v))

extract(x, i) ==
    LET idx == Shr5(i)
        j   == And31(i)
        arr == mm256_storeu_si256(Word(x.v, idx))
    IN  Deref(arr, j)

\* The loop of slow_loadu from step i on: v is the vector's words and arr the
\* scratch array as step i finds them.
RECURSIVE SlowLoaduLoop(_, _, _, _, _, _, _)
SlowLoaduLoop(v, arr, i, idx, ptr, len, reverse) ==
    IF i >= len THEN v
    ELSE LET curr_idx == IF reverse THEN idx - i ELSE idx + i
             arr_idx  == And31(curr_idx)
             arr1     == IF arr_idx = 0 \/ i = 0
                         THEN mm256_storeu_si256(Word(v, Shr5(curr_idx)))
                         ELSE arr
             arr2     == [arr1 EXCEPT ![arr_idx + 1] = Deref(ptr, i)]
             v1       == IF arr_idx = 31 \/ i = len - 1
                         THEN SetWord(v, Shr5(curr_idx), mm256_loadu_si256(arr2, 0))
                         ELSE v
         IN  SlowLoaduLoop(v1, arr2, i + 1, idx, ptr, len, reverse)

slow_loadu(x, idx, ptr, len, reverse) ==
    IF len = 0 THEN x
    ELSE [x EXCEPT !.v = SlowLoaduLoop(x.v, [k \in 1 .. LaneCount |-> 0], 0,
                                       idx, ptr, len, reverse)]

\* fast_loadu: every word reloaded from the 32 bytes at its place in ptr.
fast_loadu(x, ptr) ==
    [x EXCEPT !.v = [i \in 1 .. Len(x.v) |-> mm256_loadu_si256(ptr, Shl5(i - 1))]]

\* add, adds, neg_add and and: word i of self combined with word i of o.
add(x, o) ==
    [x EXCEPT !.v = [i \in 1 .. Len(x.v) |->
                        mm256_add_epi8(Word(x.v, i - 1), Word(o.v, i - 1))]]

adds(x, o) ==
    [x EXCEPT !.v = [i \in 1 .. Len(x.v) |->
                        mm256_adds_epi8(Word(x.v, i - 1), Word(o.v, i - 1))]]

neg_add(x, o) ==
    [x EXCEPT !.v = [i \in 1 .. Len(x.v) |->
                        mm256_sub_epi8(Word(o.v, i - 1), Word(x.v, i - 1))]]

and(x, o) ==
    [x EXCEPT !.v = [i \in 1 .. Len(x.v) |->
                        mm256_and_si256(Word(x.v, i - 1), Word(o.v, i - 1))]]

\* insert: the word of lane i stored into an array, byte i & 31 of it set to
\* val as u8, and the array loaded back.
insert(x, i, val) ==
    LET idx == Shr5(i)
        j   == And31(i)
        arr == mm256_storeu_si256(Word(x.v, idx))
    IN  [x EXCEPT !.v = SetWord(x.v, idx, mm256_loadu_si256(
                                [arr EXCEPT ![j + 1] = AsByte(val)], 0))]

\* The loop of blendv from word i on.
RECURSIVE BlendvLoop(_, _, _, _)
BlendvLoop(v, i, av, bv) ==
    IF i >= Len(v) THEN v
    ELSE BlendvLoop(SetWord(v, i, mm256_blendv_epi8(Word(av, i), Word(bv, i),
                                                    Word(v, i))),
                    i + 1, av, bv)

blendv(x, xa, xb) == [x EXCEPT !.v = BlendvLoop(x.v, 0, xa.v, xb.v)]

(***************************************************************************)
(* The shifts by one lane.  Each loop updates the words in place, in the   *)
(* order the code visits them.                                             *)
(***************************************************************************)

\* 0b00100001, 0b10000001, 0b00000011 and 0b00001000
ImmHighThenNextLow == 33
ImmHighThenZero == 129
ImmPrevHighThenLow == 3
ImmZeroThenLow == 8

RECURSIVE ShiftLeftLoop(_, _)
ShiftLeftLoop(v, i) ==
    IF i >= Len(v) - 1 THEN v
    ELSE LET curr == Word(v, i)
         IN  ShiftLeftLoop(
                 SetWord(v, i, mm256_alignr_epi8(
                     mm256_permute2x128_si256(curr, Word(v, i + 1),
                                              ImmHighThenNextLow),
                     curr, 1)),
                 i + 1)

\* A left shift whose last word takes its own low half where the zeros belong
\* (the loop's control byte used for the last word too).
ShiftLeftLastRotates(x) ==
    LET v1   == ShiftLeftLoop(x.v, 0)
        last == Len(v1) - 1
        curr == Word(v1, last)
    IN  [x EXCEPT !.v = SetWord(v1, last, mm256_alignr_epi8(
                            mm256_permute2x128_si256(curr, curr, ImmHighThenNextLow),
                            curr, 1))]

shift_left_1(x) ==
    LET v1   == ShiftLeftLoop(x.v, 0)
        last == Len(v1) - 1
        curr == Word(v1, last)
    IN  [x EXCEPT !.v = SetWord(v1, last, mm256_alignr_epi8(
                            mm256_permute2x128_si256(curr, curr, ImmHighThenZero),
                            curr, 1))]

\* for i in (1..self.v.len()).rev(), from word i down.
RECURSIVE ShiftRightLoop(_, _)
ShiftRightLoop(v, i) ==
    IF i < 1 THEN v
    ELSE LET curr == Word(v, i)
         IN  ShiftRightLoop(
                 SetWord(v, i, mm256_alignr_epi8(
                     curr,
                     mm256_permute2x128_si256(curr, Word(v, i - 1),
                                              ImmPrevHighThenLow),
                     15)),
                 i - 1)

\* A right shift whose first word takes its own high half where the zeros
\* belong (the loop's control byte used for the first word too).
ShiftRightFirstRotates(x) ==
    LET v1   == ShiftRightLoop(x.v, Len(x.v) - 1)
        curr == Word(v1, 0)
    IN  [x EXCEPT !.v = SetWord(v1, 0, mm256_alignr_epi8(
                            curr,
                            mm256_permute2x128_si256(curr, curr, ImmPrevHighThenLow),
                            15))]

shift_right_1(x) ==
    LET v1   == ShiftRightLoop(x.v, Len(x.v) - 1)
        curr == Word(v1, 0)
    IN  [x EXCEPT !.v = SetWord(v1, 0, mm256_alignr_epi8(
                            curr,
                            mm256_permute2x128_si256(curr, curr, ImmZeroThenLow),
                            15))]

(***************************************************************************)
(* The inserts at the end of the vector.                                   *)
(***************************************************************************)

\* i8::max_value()
I8Max == 127

insert_last_0(x, val) ==
    LET last == Len(x.v) - 1
    IN  [x EXCEPT !.v = SetWord(x.v, last,
                                mm256_insert_epi8(Word(x.v, last), val, 31))]

\* insert_last_1 writing the byte insert_last_0 writes.
InsertLast1AtByte31(x, val) ==
    LET last == Len(x.v) - 1
    IN  [x EXCEPT !.v = SetWord(x.v, last,
                                mm256_insert_epi8(Word(x.v, last), val, 31))]

insert_last_1(x, val) ==
    LET last == Len(x.v) - 1
    IN  [x EXCEPT !.v = SetWord(x.v, last,
                                mm256_insert_epi8(Word(x.v, last), val, 30))]

insert_last_2(x, val) ==
    LET last == Len(x.v) - 1
    IN  [x EXCEPT !.v = SetWord(x.v, last,
                                mm256_insert_epi8(Word(x.v, last), val, 29))]

insert_last_max(x) ==
    LET last == Len(x.v) - 1
    IN  [x EXCEPT !.v = SetWord(x.v, last,
                                mm256_insert_epi8(Word(x.v, last), I8Max, 31))]

insert_first(x, val) ==
    [x EXCEPT !.v = SetWord(x.v, 0, mm256_insert_epi8(Word(x.v, 0), val, 0))]

insert_first_max(x) ==
    [x EXCEPT !.v = SetWord(x.v, 0, mm256_insert_epi8(Word(x.v, 0), I8Max, 0))]

(***************************************************************************)
(* The three kernels that count mismatches.                                *)
(***************************************************************************)

\* Batches of one word more than the byte counters can count.
BatchWordsOneMore == 255 + 1

\* The number of words between two reductions of the byte counters.
BatchWords == 255

\* (x == y) as u32
EqAsU32(x, y) == IF x = y THEN 1 ELSE 0

\* The scalar loop over the bytes from..len-1 that both pointer kernels end
\* with: the matches it adds to res.
RECURSIVE TailMatches(_, _, _, _)
TailMatches(a_ptr, b_ptr, i, len) ==
    IF i >= len THEN 0
    ELSE EqAsU32(Deref(a_ptr, i), Deref(b_ptr, i))
         + TailMatches(a_ptr, b_ptr, i + 1, len)

\* The word loops below run their iterations in the code's order.  A run of
\* several iterations is its first half followed by its second, and the
\* test between the two (true of every sum and of every word) has the first
\* half evaluated before the second is entered.

\* One iteration of mm_count_mismatches' word loop: res after word i.
MmWordStep(a_ptr, b_ptr, i, res) ==
    LET wa == mm256_loadu_si256(a_ptr, Shl5(i))
        wb == mm256_loadu_si256(b_ptr, Shl5(i))
        eq == mm256_cmpeq_epi8(wa, wb)
    IN  res + count_ones(mm256_movemask_epi8(eq))

\* The word loop of mm_count_mismatches over the words i .. div_len-1, res
\* being the sum so far.
RECURSIVE MmWordLoop(_, _, _, _, _)
MmWordLoop(a_ptr, b_ptr, i, div_len, res) ==
    IF i >= div_len THEN res
    ELSE IF div_len - i = 1 THEN MmWordStep(a_ptr, b_ptr, i, res)
    ELSE LET mid   == i + ((div_len - i) \div 2)
             first == MmWordLoop(a_ptr, b_ptr, i, mid, res)
         IN  IF first >= res THEN MmWordLoop(a_ptr, b_ptr, mid, div_len, first)
             ELSE first

mm_count_mismatches(a_ptr, b_ptr, len) ==
    LET div_len == Shr5(len)
        res     == MmWordLoop(a_ptr, b_ptr, 0, div_len, 0)
                   + TailMatches(a_ptr, b_ptr, Shl5(div_len), len)
    IN  len - res

\* One iteration of count_mismatches' word loops: the byte counters after
\* word j, one more in every lane where the two words match.
CountWordStep(a_ptr, b_ptr, j, curr) ==
    LET wa == mm256_loadu_si256(a_ptr, Shl5(j))
        wb == mm256_loadu_si256(b_ptr, Shl5(j))
        eq == mm256_cmpeq_epi8(wa, wb)
    IN  mm256_sub_epi8(curr, eq)

\* The word loops of count_mismatches over the words j .. end-1.
RECURSIVE CountWordLoop(_, _, _, _, _)
CountWordLoop(a_ptr, b_ptr, j, end, curr) ==
    IF j >= end THEN curr
    ELSE IF end - j = 1 THEN CountWordStep(a_ptr, b_ptr, j, curr)
    ELSE LET mid   == j + ((end - j) \div 2)
             first == CountWordLoop(a_ptr, b_ptr, j, mid, curr)
         IN  IF first # <<>> THEN CountWordLoop(a_ptr, b_ptr, mid, end, first)
             ELSE first

\* The loop over the full batches from batch i on, sad being the sums so far.
RECURSIVE CountBatchLoop(_, _, _, _, _)
CountBatchLoop(a_ptr, b_ptr, i, refresh_len, sad) ==
    IF i >= refresh_len THEN sad
    ELSE LET curr == CountWordLoop(a_ptr, b_ptr, i * BatchWords,
                                   (i + 1) * BatchWords, mm256_setzero_si256)
         IN  CountBatchLoop(a_ptr, b_ptr, i + 1, refresh_len,
                 mm256_add_epi64(sad, mm256_sad_epu8(curr, mm256_setzero_si256)))

\* The sum of the first four u32 of sad_arr instead of every other one.
SadTotalAdjacent(sad) ==
    U32At(sad, 0) + U32At(sad, 1) + U32At(sad, 2) + U32At(sad, 3)

\* sad_arr[0] + sad_arr[2] + sad_arr[4] + sad_arr[6]
SadTotal(sad) == U32At(sad, 0) + U32At(sad, 2) + U32At(sad, 4) + U32At(sad, 6)

count_mismatches(a_ptr, b_ptr, len) ==
    LET refresh_len == len \div (BatchWords * 32)
        zeros       == mm256_setzero_si256
        sad1        == CountBatchLoop(a_ptr, b_ptr, 0, refresh_len, zeros)
        word_len    == Shr5(len)
        curr        == CountWordLoop(a_ptr, b_ptr, refresh_len * BatchWords,
                                     word_len, zeros)
        sad2        == mm256_add_epi64(sad1, mm256_sad_epu8(curr, zeros))
        res         == SadTotal(sad2)
                       + TailMatches(a_ptr, b_ptr, Shl5(word_len), len)
    IN  len - res

\* The same loops in vector_count_mismatches, whose left operand is the
\* words av of a vector.
VectorWordStep(av, b_ptr, j, curr) ==
    LET wa == Word(av, j)
        wb == mm256_loadu_si256(b_ptr, Shl5(j))
        eq == mm256_cmpeq_epi8(wa, wb)
    IN  mm256_sub_epi8(curr, eq)

RECURSIVE VectorWordLoop(_, _, _, _, _)
VectorWordLoop(av, b_ptr, j, end, curr) ==
    IF j >= end THEN curr
    ELSE IF end - j = 1 THEN VectorWordStep(av, b_ptr, j, curr)
    ELSE LET mid   == j + ((end - j) \div 2)
             first == VectorWordLoop(av, b_ptr, j, mid, curr)
         IN  IF first # <<>> THEN VectorWordLoop(av, b_ptr, mid, end, first)
             ELSE first

RECURSIVE VectorBatchLoop(_, _, _, _, _)
VectorBatchLoop(av, b_ptr, i, refresh_len, sad) ==
    IF i >= refresh_len THEN sad
    ELSE LET curr == VectorWordLoop(av, b_ptr, i * BatchWords,
                                    (i + 1) * BatchWords, mm256_setzero_si256)
         IN  VectorBatchLoop(av, b_ptr, i + 1, refresh_len,
                 mm256_add_epi64(sad, mm256_sad_epu8(curr, mm256_setzero_si256)))

\* vector_count_mismatches subtracting the matches from the vector's len
\* instead of from the lanes of its words.
VectorCountFromLen(x, b_ptr) ==
    LET refresh_len == Len(x.v) \div BatchWords
        zeros       == mm256_setzero_si256
        sad1        == VectorBatchLoop(x.v, b_ptr, 0, refresh_len, zeros)
        curr        == VectorWordLoop(x.v, b_ptr, refresh_len * BatchWords,
                                      Len(x.v), zeros)
        sad2        == mm256_add_epi64(sad1, mm256_sad_epu8(curr, zeros))
        res         == SadTotal(sad2)
    IN  x.len - res

vector_count_mismatches(x, b_ptr) ==
    LET refresh_len == Len(x.v) \div BatchWords
        zeros       == mm256_setzero_si256
        sad1        == VectorBatchLoop(x.v, b_ptr, 0, refresh_len, zeros)
        curr        == VectorWordLoop(x.v, b_ptr, refresh_len * BatchWords,
                                      Len(x.v), zeros)
        sad2        == mm256_add_epi64(sad1, mm256_sad_epu8(curr, zeros))
        res         == SadTotal(sad2)
    IN  Shl5(Len(x.v)) - res

(***************************************************************************)
(* The fused three-way minimum.                                            *)
(***************************************************************************)

\* The iteration without stage 1's blend on equal costs: a tie of a_gap and
\* b_gap keeps a_gap's length.
TripleMinWordNoTieOne(sub, a_gap, b_gap, sub_length, a_gap_length, b_gap_length) ==
    LET res_min1    == mm256_min_epi8(a_gap, b_gap)
        a_b_gt_mask == mm256_cmpgt_epi8(a_gap, b_gap)
        res_length1 == mm256_blendv_epi8(a_gap_length, b_gap_length, a_b_gt_mask)
        res_min2    == mm256_min_epi8(sub, res_min1)
        sub_gt_mask == mm256_cmpgt_epi8(sub, res_min1)
        res_length2 == mm256_blendv_epi8(sub_length, res_length1, sub_gt_mask)
        sub_eq_mask == mm256_cmpeq_epi8(sub, res_min1)
        sub_max_len == mm256_max_epi8(sub_length, res_length1)
        res_length2b == mm256_blendv_epi8(res_length2, sub_max_len, sub_eq_mask)
    IN  [res_min |-> res_min2, res_length |-> res_length2b]

\* The iteration without stage 2's blend on equal costs: a tie of sub and
\* min(a_gap, b_gap) keeps sub's length.
TripleMinWordNoTieTwo(sub, a_gap, b_gap, sub_length, a_gap_length, b_gap_length) ==
    LET res_min1    == mm256_min_epi8(a_gap, b_gap)
        a_b_gt_mask == mm256_cmpgt_epi8(a_gap, b_gap)
        res_length1 == mm256_blendv_epi8(a_gap_length, b_gap_length, a_b_gt_mask)
        a_b_eq_mask == mm256_cmpeq_epi8(a_gap, b_gap)
        a_b_max_len == mm256_max_epi8(a_gap_length, b_gap_length)
        res_length1b == mm256_blendv_epi8(res_length1, a_b_max_len, a_b_eq_mask)
        res_min2    == mm256_min_epi8(sub, res_min1)
        sub_gt_mask == mm256_cmpgt_epi8(sub, res_min1)
        res_length2 == mm256_blendv_epi8(sub_length, res_length1b, sub_gt_mask)
    IN  [res_min |-> res_min2, res_length |-> res_length2]

\* One iteration of triple_min_length's loop: the two words it stores.
TripleMinWord(sub, a_gap, b_gap, sub_length, a_gap_length, b_gap_length) ==
    LET res_min1    == mm256_min_epi8(a_gap, b_gap)
        a_b_gt_mask == mm256_cmpgt_epi8(a_gap, b_gap)
        res_length1 == mm256_blendv_epi8(a_gap_length, b_gap_length, a_b_gt_mask)
        a_b_eq_mask == mm256_cmpeq_epi8(a_gap, b_gap)
        a_b_max_len == mm256_max_epi8(a_gap_length, b_gap_length)
        res_length1b == mm256_blendv_epi8(res_length1, a_b_max_len, a_b_eq_mask)
        res_min2    == mm256_min_epi8(sub, res_min1)
        sub_gt_mask == mm256_cmpgt_epi8(sub, res_min1)
        res_length2 == mm256_blendv_epi8(sub_length, res_length1b, sub_gt_mask)
        sub_eq_mask == mm256_cmpeq_epi8(sub, res_min1)
        sub_max_len == mm256_max_epi8(sub_length, res_length1b)
        res_length2b == mm256_blendv_epi8(res_length2, sub_max_len, sub_eq_mask)
    IN  [res_min |-> res_min2, res_length |-> res_length2b]

\* The loop of triple_min_length from word i on: t holds the eight vectors.
RECURSIVE TripleMinLoop(_, _)
TripleMinLoop(t, i) ==
    IF i >= Len(t.sub.v) THEN t
    ELSE LET r == TripleMinWord(Word(t.sub.v, i), Word(t.a_gap.v, i),
                                Word(t.b_gap.v, i), Word(t.sub_length.v, i),
                                Word(t.a_gap_length.v, i),
                                Word(t.b_gap_length.v, i))
         IN  TripleMinLoop(
                 [t EXCEPT !.res_min.v = SetWord(@, i, r.res_min),
                           !.res_length.v = SetWord(@, i, r.res_length)],
                 i + 1)

triple_min_length(t) == TripleMinLoop(t, 0)

(***************************************************************************)
(* The fused clone-and-operate factories: each pushes one word per word of *)
(* xa and takes its len.                                                   *)
(***************************************************************************)

cmpeq(xa, xb) ==
    [len |-> xa.len,
     v   |-> [i \in 1 .. Len(xa.v) |->
                 mm256_cmpeq_epi8(Word(xa.v, i - 1), Word(xb.v, i - 1))]]

cmpgt(xa, xb) ==
    [len |-> xa.len,
     v   |-> [i \in 1 .. Len(xa.v) |->
                 mm256_cmpgt_epi8(Word(xa.v, i - 1), Word(xb.v, i - 1))]]

min(xa, xb) ==
    [len |-> xa.len,
     v   |-> [i \in 1 .. Len(xa.v) |->
                 mm256_min_epi8(Word(xa.v, i - 1), Word(xb.v, i - 1))]]

max(xa, xb) ==
    [len |-> xa.len,
     v   |-> [i \in 1 .. Len(xa.v) |->
                 mm256_max_epi8(Word(xa.v, i - 1), Word(xb.v, i - 1))]]

(***************************************************************************)
(* The inputs the operations are called with.                              *)
(***************************************************************************)

\* The largest number of words of a vector.
MaxWords == 3

\* The largest number of in-place operations called on one vector.
MaxOps == 2

\* Byte i of the memory a caller hands in: four contents, all of them with
\* bytes below and above 128 and with neighbours that differ.
MemByte(p, i) ==
    CASE p = 1 -> (37 * i + 11) % 256
      [] p = 2 -> (89 * i + 200) % 256
      [] p = 3 -> (101 * i + 150) % 256
      [] p = 4 -> (53 * i + 7) % 256
      [] p = 5 -> IF i % 2 = 0 THEN 255 ELSE 0

\* A buffer of n bytes.
Mem(p, n) == [i \in 1 .. n |-> MemByte(p, i - 1)]

\* The source buffers reach one word past the longest vector.
MemLen == Shl5(MaxWords) + LaneCount

\* Lengths at, just below and just above the multiples of 32.
VecLens == {n \in 0 .. Shl5(MaxWords) : And31(n) \in {0, 1, 31}}

SelfMems == {1, 5}

InsertVals == {65, 300}

\* The runs slow_loadu is called with, as <<idx, len>>: inside one word, up to
\* lane 0 or lane 31 of a word, over one word boundary and over two.
SlowRuns == {<<0, 1>>, <<2, 3>>, <<5, 0>>, <<29, 3>>, <<30, 4>>, <<31, 3>>,
             <<33, 4>>, <<29, 36>>, <<62, 36>>}

\* The values repeating broadcasts: a u32, of which the lanes keep the low byte.
RepVals == {0, 1, 65, 127, 128, 200, 255, 256, 300, 511, 1000}

\* The lanes insert is called on.
InsertLanes == {5}

NoOp == [name |-> "none", ptr |-> <<>>, idx |-> 0, len |-> 0,
         reverse |-> FALSE, val |-> 0]

NoVec == [len |-> 0, v |-> <<>>]

CntIdle == [called |-> {}]

\* The largest number of full batches of BatchWords words in a buffer.
MaxBatches == 2

\* Buffer lengths around every multiple of 255 * 32 up to MaxBatches of them:
\* one byte less, the multiple itself, one byte, one word and one word and a
\* byte more.
CntLens ==
    {n \in {Shl5(BatchWords) * q + d : q \in 0 .. MaxBatches, d \in {-1, 0, 1, 32, 33}} :
        n >= 0}

\* Byte i of the right buffer: the left buffer's byte, changed nowhere (1), at
\* every third byte (2), at one byte in 257 (3) or everywhere (4).
CntByteB(q, i) ==
    LET x == MemByte(1, i)
    IN  CASE q = 1 -> x
          [] q = 2 -> IF i % 3 = 0 THEN (x + 1) % 256 ELSE x
          [] q = 3 -> IF i % 257 = 5 THEN (x + 128) % 256 ELSE x
          [] q = 4 -> (x + 1) % 256

CntMemsB == 1 .. 4

\* The two buffers of a kernel call on len bytes: both reach the end of the
\* last word that holds any of the len bytes.
CntA(c) == Mem(1, Shl5(WordCount(c.len)))

CntB(c) == [i \in 1 .. Shl5(WordCount(c.len)) |-> CntByteB(c.b_mem, i - 1)]

TmlIdle == [called |-> FALSE]

\* The edit costs and the alignment lengths the lanes of triple_min_length's
\* operands hold: 200 and 130 are negative as the signed bytes epi8 reads.
TmlCosts == <<5, 6, 127, 200>>

TmlLens == <<3, 4, 7, 130>>

\* The number of ways to fill one lane of the six operands.
TmlCombos == (Len(TmlCosts) ^ 3) * (Len(TmlLens) ^ 3)

\* Operand k (0: sub, 1: a_gap, 2: b_gap, 3..5: their lengths) of the c-th way.
TmlDigit(c, k) ==
    LET costs == (c % TmlCombos) \div (Len(TmlCosts) ^ k)
        lens  == (c % TmlCombos) \div ((Len(TmlCosts) ^ 3) * (Len(TmlLens) ^ (k - 3)))
    IN  IF k < 3 THEN TmlCosts[(costs % Len(TmlCosts)) + 1]
        ELSE TmlLens[(lens % Len(TmlLens)) + 1]

\* The buffer operand k is loaded from: its lane i holds the (base + i)-th way.
TmlMem(k, base, n) == [i \in 1 .. n |-> TmlDigit(base + i - 1, k)]

\* Enough bases for the vectors of MaxWords words to go through every way.
TmlBases == {Shl5(MaxWords) * q : q \in 0 .. ((TmlCombos - 1) \div Shl5(MaxWords))}

(***************************************************************************)
(* The caller of the in-place operations: it constructs self, a and b with *)
(* loadu, all of one length, and then calls operations on self.            *)
(***************************************************************************)

VecInit ==
    /\ self = NoVec
    /\ a = NoVec
    /\ b = NoVec
    /\ pre = [self |-> NoVec, a |-> NoVec, b |-> NoVec]
    /\ pre2 = NoVec
    /\ op = NoOp
    /\ op2 = "none"
    /\ nops = 0
    /\ cnt = CntIdle
    /\ tml = TmlIdle

\* self is loaded from the first memory at every length, and from the
\* alternating one (the mask of all-set and all-clear bytes) at the longest.
Construct ==
    /\ op.name = "none"
    /\ \E len \in VecLens, p \in SelfMems :
          /\ p = 5 => len = Shl5(MaxWords)
          /\ self' = loadu(Mem(p, MemLen), len)
          /\ a' = loadu(Mem(2, MemLen), len)
          /\ b' = loadu(Mem(4, MemLen), len)
          /\ op' = [NoOp EXCEPT !.name = "loadu", !.ptr = Mem(p, MemLen),
                                !.len = len]
    /\ UNCHANGED <<pre, pre2, op2, nops, cnt, tml>>

\* What every in-place operation records of the call.
Called(rec) ==
    /\ op.name # "none"
    /\ nops < MaxOps
    /\ op' = rec
    /\ op2' = op.name
    /\ pre' = [self |-> self, a |-> a, b |-> b]
    /\ pre2' = pre.self
    /\ nops' = nops + 1
    /\ UNCHANGED <<cnt, tml>>

SlowLoadu ==
    \E run \in SlowRuns, reverse \in BOOLEAN :
      LET idx == run[1]
          len == run[2]
      IN
        /\ len > 0 => IF reverse THEN idx < upper_bound(self) /\ idx - (len - 1) >= 0
                      ELSE idx + len <= upper_bound(self)
        /\ Called([NoOp EXCEPT !.name = "slow_loadu", !.idx = idx,
                               !.ptr = Mem(3, len), !.len = len,
                               !.reverse = reverse])
        /\ self' = slow_loadu(self, idx, Mem(3, len), len, reverse)
        /\ UNCHANGED <<a, b>>

Blendv ==
    /\ Called([NoOp EXCEPT !.name = "blendv"])
    /\ self' = blendv(self, a, b)
    /\ UNCHANGED <<a, b>>

ShiftLeft1 ==
    /\ Len(self.v) >= 1
    /\ Called([NoOp EXCEPT !.name = "shift_left_1"])
    /\ self' = shift_left_1(self)
    /\ UNCHANGED <<a, b>>

ShiftRight1 ==
    /\ Len(self.v) >= 1
    /\ Called([NoOp EXCEPT !.name = "shift_right_1"])
    /\ self' = shift_right_1(self)
    /\ UNCHANGED <<a, b>>

InsertLast0 ==
    /\ Len(self.v) >= 1
    /\ \E val \in InsertVals :
          /\ Called([NoOp EXCEPT !.name = "insert_last_0", !.val = val])
          /\ self' = insert_last_0(self, val)
    /\ UNCHANGED <<a, b>>

InsertLast1 ==
    /\ Len(self.v) >= 1
    /\ \E val \in InsertVals :
          /\ Called([NoOp EXCEPT !.name = "insert_last_1", !.val = val])
          /\ self' = insert_last_1(self, val)
    /\ UNCHANGED <<a, b>>

InsertLast2 ==
    /\ Len(self.v) >= 1
    /\ \E val \in InsertVals :
          /\ Called([NoOp EXCEPT !.name = "insert_last_2", !.val = val])
          /\ self' = insert_last_2(self, val)
    /\ UNCHANGED <<a, b>>

InsertLastMax ==
    /\ Len(self.v) >= 1
    /\ Called([NoOp EXCEPT !.name = "insert_last_max"])
    /\ self' = insert_last_max(self)
    /\ UNCHANGED <<a, b>>

FastLoadu ==
    /\ Called([NoOp EXCEPT !.name = "fast_loadu",
                           !.ptr = Mem(3, upper_bound(self))])
    /\ self' = fast_loadu(self, Mem(3, upper_bound(self)))
    /\ UNCHANGED <<a, b>>

\* add and neg_add are called with a as o, adds and and with b.
Add ==
    /\ Called([NoOp EXCEPT !.name = "add"])
    /\ self' = add(self, a)
    /\ UNCHANGED <<a, b>>

Adds ==
    /\ Called([NoOp EXCEPT !.name = "adds"])
    /\ self' = adds(self, b)
    /\ UNCHANGED <<a, b>>

NegAdd ==
    /\ Called([NoOp EXCEPT !.name = "neg_add"])
    /\ self' = neg_add(self, a)
    /\ UNCHANGED <<a, b>>

And ==
    /\ Called([NoOp EXCEPT !.name = "and"])
    /\ self' = and(self, b)
    /\ UNCHANGED <<a, b>>

Insert ==
    /\ \E i \in InsertLanes, val \in InsertVals :
          /\ i < upper_bound(self)
          /\ Called([NoOp EXCEPT !.name = "insert", !.idx = i, !.val = val])
          /\ self' = insert(self, i, val)
    /\ UNCHANGED <<a, b>>

InsertFirst ==
    /\ Len(self.v) >= 1
    /\ \E val \in InsertVals :
          /\ Called([NoOp EXCEPT !.name = "insert_first", !.val = val])
          /\ self' = insert_first(self, val)
    /\ UNCHANGED <<a, b>>

InsertFirstMax ==
    /\ Len(self.v) >= 1
    /\ Called([NoOp EXCEPT !.name = "insert_first_max"])
    /\ self' = insert_first_max(self)
    /\ UNCHANGED <<a, b>>

VecNext ==
    \/ Construct
    \/ SlowLoadu
    \/ FastLoadu
    \/ Add
    \/ Adds
    \/ NegAdd
    \/ And
    \/ Insert
    \/ InsertFirst
    \/ InsertFirstMax
    \/ Blendv
    \/ ShiftLeft1
    \/ ShiftRight1
    \/ InsertLast0
    \/ InsertLast1
    \/ InsertLast2
    \/ InsertLastMax

SpecVec == VecInit /\ [][VecNext]_vars

(***************************************************************************)
(* The caller of the broadcast constructors: it makes one vector, with     *)
(* repeating or with repeating_max.                                        *)
(***************************************************************************)

Repeating ==
    /\ op.name = "none"
    /\ \E val \in RepVals, len \in VecLens :
          /\ self' = repeating(val, len)
          /\ op' = [NoOp EXCEPT !.name = "repeating", !.val = val, !.len = len]
    /\ UNCHANGED <<a, b, pre, pre2, op2, nops, cnt, tml>>

RepeatingMax ==
    /\ op.name = "none"
    /\ \E len \in VecLens :
          /\ self' = repeating_max(len)
          /\ op' = [NoOp EXCEPT !.name = "repeating_max", !.len = len]
    /\ UNCHANGED <<a, b, pre, pre2, op2, nops, cnt, tml>>

RepNext ==
    \/ Repeating
    \/ RepeatingMax

SpecRep == VecInit /\ [][RepNext]_vars

(***************************************************************************)
(* The caller of cmpeq, cmpgt, min and max: it constructs three vectors of one    *)
(* length with loadu and calls a factory on two of them, in either order   *)
(* or on one vector twice; self becomes the vector returned, and pre.a and *)
(* pre.b record the operands.                                              *)
(***************************************************************************)

CmpOperands == {"self", "a", "b"}

CmpOperand(name) ==
    CASE name = "self" -> self
      [] name = "a" -> a
      [] name = "b" -> b

CmpCalled(name, xa, xb) ==
    /\ op.name = "loadu"
    /\ op' = [NoOp EXCEPT !.name = name]
    /\ op2' = op.name
    /\ pre' = [self |-> self, a |-> xa, b |-> xb]
    /\ UNCHANGED <<a, b, pre2, nops, cnt, tml>>

Cmpeq ==
    \E left \in CmpOperands, right \in CmpOperands :
        /\ CmpCalled("cmpeq", CmpOperand(left), CmpOperand(right))
        /\ self' = cmpeq(CmpOperand(left), CmpOperand(right))

Cmpgt ==
    \E left \in CmpOperands, right \in CmpOperands :
        /\ CmpCalled("cmpgt", CmpOperand(left), CmpOperand(right))
        /\ self' = cmpgt(CmpOperand(left), CmpOperand(right))

Min ==
    \E left \in CmpOperands, right \in CmpOperands :
        /\ CmpCalled("min", CmpOperand(left), CmpOperand(right))
        /\ self' = min(CmpOperand(left), CmpOperand(right))

Max ==
    \E left \in CmpOperands, right \in CmpOperands :
        /\ CmpCalled("max", CmpOperand(left), CmpOperand(right))
        /\ self' = max(CmpOperand(left), CmpOperand(right))

CmpNext ==
    \/ Construct
    \/ Cmpeq
    \/ Cmpgt
    \/ Min
    \/ Max

SpecCmp == VecInit /\ [][CmpNext]_vars

(***************************************************************************)
(* The caller of triple_min_length: it loads the six operands, allocates   *)
(* the two results and makes the call.                                     *)
(***************************************************************************)

TmlOperands(t) ==
    [sub |-> t.sub, a_gap |-> t.a_gap, b_gap |-> t.b_gap,
     sub_length |-> t.sub_length, a_gap_length |-> t.a_gap_length,
     b_gap_length |-> t.b_gap_length]

TmlInit ==
    /\ self = NoVec
    /\ a = NoVec
    /\ b = NoVec
    /\ pre = [self |-> NoVec, a |-> NoVec, b |-> NoVec]
    /\ pre2 = NoVec
    /\ op = NoOp
    /\ op2 = "none"
    /\ nops = 0
    /\ cnt = CntIdle
    /\ \E words \in 1 .. MaxWords, base \in TmlBases :
          LET len == Shl5(words)
          IN  tml = [called       |-> FALSE,
                     args         |-> <<>>,
                     sub          |-> loadu(TmlMem(0, base, len), len),
                     a_gap        |-> loadu(TmlMem(1, base, len), len),
                     b_gap        |-> loadu(TmlMem(2, base, len), len),
                     sub_length   |-> loadu(TmlMem(3, base, len), len),
                     a_gap_length |-> loadu(TmlMem(4, base, len), len),
                     b_gap_length |-> loadu(TmlMem(5, base, len), len),
                     res_min      |-> repeating(0, len),
                     res_length   |-> repeating(0, len)]

TripleMinLength ==
    /\ ~tml.called
    /\ tml' = [triple_min_length(tml) EXCEPT !.called = TRUE,
                                             !.args = TmlOperands(tml)]
    /\ UNCHANGED <<self, a, b, pre, pre2, op, op2, nops, cnt>>

TmlNext == TripleMinLength

SpecTml == TmlInit /\ [][TmlNext]_vars

(***************************************************************************)
(* The caller of the mismatch kernels: two buffers of len bytes, on which  *)
(* it calls each kernel once, in any order.  vector_count_mismatches gets  *)
(* the left buffer as the vector loadu makes of it.                        *)
(***************************************************************************)

CntInit ==
    /\ self = NoVec
    /\ a = NoVec
    /\ b = NoVec
    /\ pre = [self |-> NoVec, a |-> NoVec, b |-> NoVec]
    /\ pre2 = NoVec
    /\ op = NoOp
    /\ op2 = "none"
    /\ nops = 0
    /\ tml = TmlIdle
    /\ \E len \in CntLens, q \in CntMemsB :
          cnt = [called |-> {}, len |-> len, b_mem |-> q,
                 mm |-> 0, cm |-> 0, vcm |-> 0]

MmCountMismatches ==
    /\ "mm_count_mismatches" \notin cnt.called
    /\ cnt' = [cnt EXCEPT !.called = @ \cup {"mm_count_mismatches"},
                          !.mm = mm_count_mismatches(CntA(cnt), CntB(cnt), cnt.len)]
    /\ UNCHANGED <<self, a, b, pre, pre2, op, op2, nops, tml>>

CountMismatches ==
    /\ "count_mismatches" \notin cnt.called
    /\ cnt' = [cnt EXCEPT !.called = @ \cup {"count_mismatches"},
                          !.cm = count_mismatches(CntA(cnt), CntB(cnt), cnt.len)]
    /\ UNCHANGED <<self, a, b, pre, pre2, op, op2, nops, tml>>

VectorCountMismatches ==
    /\ "vector_count_mismatches" \notin cnt.called
    /\ cnt' = [cnt EXCEPT !.called = @ \cup {"vector_count_mismatches"},
                          !.vcm = vector_count_mismatches(
                                      loadu(CntA(cnt), cnt.len), CntB(cnt))]
    /\ UNCHANGED <<self, a, b, pre, pre2, op, op2, nops, tml>>

CntNext ==
    \/ MmCountMismatches
    \/ CountMismatches
    \/ VectorCountMismatches

SpecCnt == CntInit /\ [][CntNext]_vars

(***************************************************************************)
(* count_mismatches and vector_count_mismatches step by step: one action   *)
(* per iteration of a word loop and per reduction of the byte counters.    *)
(* cnt holds the kernel's locals: the batch index i, the word index j,     *)
(* curr and sad; seen counts, lane by lane, the matching words since curr  *)
(* was last set to zeros.                                                  *)
(***************************************************************************)

LoopKernels == {"count_mismatches", "vector_count_mismatches"}

\* The vector vector_count_mismatches is called with.
LoopVector(c) == loadu(CntA(c), c.len)

\* word_len, and a.v.len() in vector_count_mismatches.
LoopWords(c) ==
    IF c.kernel = "count_mismatches" THEN Shr5(c.len) ELSE Len(LoopVector(c).v)

\* refresh_len
LoopRefreshLen(c) ==
    IF c.kernel = "count_mismatches" THEN c.len \div (BatchWords * 32)
    ELSE Len(LoopVector(c).v) \div BatchWords

\* The body of a word loop at word c.j: the new curr.
LoopStep(c) ==
    IF c.kernel = "count_mismatches"
    THEN CountWordStep(CntA(c), CntB(c), c.j, c.curr)
    ELSE VectorWordStep(LoopVector(c).v, CntB(c), c.j, c.curr)

\* seen after word c.j: one more in every lane whose two bytes are equal.
LoopSeen(c) ==
    LET x == LoopVector(c)
    IN  [k \in 1 .. LaneCount |->
            LET at    == Shl5(c.j) + (k - 1)
                left  == IF c.kernel = "count_mismatches" THEN Deref(CntA(c), at)
                         ELSE extract(x, at)
            IN  c.seen[k] + EqAsU32(left, Deref(CntB(c), at))]

\* sad = _mm256_add_epi64(sad, _mm256_sad_epu8(curr, zeros))
LoopFold(c) ==
    mm256_add_epi64(c.sad, mm256_sad_epu8(c.curr, mm256_setzero_si256))

LoopInit ==
    /\ self = NoVec
    /\ a = NoVec
    /\ b = NoVec
    /\ pre = [self |-> NoVec, a |-> NoVec, b |-> NoVec]
    /\ pre2 = NoVec
    /\ op = NoOp
    /\ op2 = "none"
    /\ nops = 0
    /\ tml = TmlIdle
    /\ \E kernel \in LoopKernels, len \in CntLens, q \in CntMemsB :
          LET c == [kernel |-> kernel, len |-> len, b_mem |-> q]
          IN  cnt = [called |-> {}, kernel |-> kernel, len |-> len, b_mem |-> q,
                     pc   |-> IF LoopRefreshLen(c) > 0 THEN "batch" ELSE "leftover",
                     i    |-> 0,
                     j    |-> 0,
                     curr |-> mm256_setzero_si256,
                     sad  |-> mm256_setzero_si256,
                     seen |-> [k \in 1 .. LaneCount |-> 0],
                     res  |-> 0]

\* One iteration of the inner loop of a full batch.
BatchWord ==
    /\ cnt.pc = "batch"
    /\ cnt.j < (cnt.i + 1) * BatchWords
    /\ cnt' = [cnt EXCEPT !.curr = LoopStep(cnt), !.seen = LoopSeen(cnt),
                          !.j = @ + 1]
    /\ UNCHANGED <<self, a, b, pre, pre2, op, op2, nops, tml>>

\* The end of a full batch: the counters go into sad, and curr is zeros again,
\* for the next batch or for the leftover words.
BatchFold ==
    /\ cnt.pc = "batch"
    /\ cnt.j >= (cnt.i + 1) * BatchWords
    /\ cnt' = [cnt EXCEPT !.sad = LoopFold(cnt),
                          !.curr = mm256_setzero_si256,
                          !.seen = [k \in 1 .. LaneCount |-> 0],
                          !.i = @ + 1,
                          !.j = IF cnt.i + 1 < LoopRefreshLen(cnt) THEN @
                                ELSE LoopRefreshLen(cnt) * BatchWords,
                          !.pc = IF cnt.i + 1 < LoopRefreshLen(cnt) THEN "batch"
                                 ELSE "leftover"]
    /\ UNCHANGED <<self, a, b, pre, pre2, op, op2, nops, tml>>

\* One iteration of the loop over the leftover words.
LeftoverWord ==
    /\ cnt.pc = "leftover"
    /\ cnt.j < LoopWords(cnt)
    /\ cnt' = [cnt EXCEPT !.curr = LoopStep(cnt), !.seen = LoopSeen(cnt),
                          !.j = @ + 1]
    /\ UNCHANGED <<self, a, b, pre, pre2, op, op2, nops, tml>>

\* After the leftover words: the last reduction, the sum of sad_arr, the
\* scalar tail of count_mismatches, and the return value.
LastFold ==
    /\ cnt.pc = "leftover"
    /\ cnt.j >= LoopWords(cnt)
    /\ LET sad == LoopFold(cnt)
       IN  cnt' = [cnt EXCEPT
                      !.sad = sad,
                      !.pc = "done",
                      !.called = {cnt.kernel},
                      !.res = IF cnt.kernel = "count_mismatches"
                              THEN cnt.len - (SadTotal(sad)
                                              + TailMatches(CntA(cnt), CntB(cnt),
                                                            Shl5(LoopWords(cnt)),
                                                            cnt.len))
                              ELSE Shl5(LoopWords(cnt)) - SadTotal(sad)]
    /\ UNCHANGED <<self, a, b, pre, pre2, op, op2, nops, tml>>

LoopNext ==
    \/ BatchWord
    \/ BatchFold
    \/ LeftoverWord
    \/ LastFold

SpecLoop == LoopInit /\ [][LoopNext]_vars

(***************************************************************************)
(* Properties of the in-place operations.                                  *)
(***************************************************************************)

\* The lane indices a vector physically backs.
LanesOf(x) == 0 .. (upper_bound(x) - 1)

HighBitSet(x) == (x \div 128) % 2 = 1

\* C3: loadu(src, L) yields exactly ceil(L/32) words, lane i holding src[i] for
\* every i < L and zero for every i from L up to upper_bound().
C3_LoaduRoundTrip ==
    op.name = "loadu" =>
        /\ Len(self.v) = (op.len + 31) \div 32
        /\ \A i \in LanesOf(self) :
              extract(self, i) = IF i < op.len THEN Deref(op.ptr, i) ELSE 0

\* A partial last word loaded from a source whose bytes go on, non-zero,
\* after the L that were asked for.
C3_Witness ==
    /\ op.name = "loadu"
    /\ op.len > LaneCount
    /\ And31(op.len) # 0
    /\ \A i \in op.len .. (upper_bound(self) - 1) : Deref(op.ptr, i) # 0

\* C6: on n = upper_bound() >= 32 lanes shift_left_1 moves lane i + 1 to lane i
\* for every i < n - 1 and zeroes lane n - 1; shift_right_1 moves lane i - 1 to
\* lane i for every 1 <= i < n and zeroes lane 0.
C6_ShiftByOne ==
    /\ op.name = "shift_left_1" =>
          /\ upper_bound(self) = upper_bound(pre.self)
          /\ \A i \in LanesOf(self) :
                extract(self, i) = IF i < upper_bound(self) - 1
                                   THEN extract(pre.self, i + 1) ELSE 0
    /\ op.name = "shift_right_1" =>
          /\ upper_bound(self) = upper_bound(pre.self)
          /\ \A i \in LanesOf(self) :
                extract(self, i) = IF i >= 1 THEN extract(pre.self, i - 1) ELSE 0

\* A left shift of three words that carried non-zero lanes over both word
\* boundaries and over the middle of a word, after a right shift.
C6_Witness ==
    /\ op2 = "shift_right_1"
    /\ op.name = "shift_left_1"
    /\ Len(self.v) = 3
    /\ \A i \in {15, 31, 63} : /\ extract(self, i) # 0
                               /\ extract(self, i) # extract(pre.self, i)

\* C7: shift_left_1 followed by shift_right_1 leaves every lane i in [1, len)
\* as it was and leaves lane 0 zero.
C7_ShiftLeftThenRight ==
    (op2 = "shift_left_1" /\ op.name = "shift_right_1") =>
        /\ extract(self, 0) = 0
        /\ \A i \in 1 .. (pre2.len - 1) : extract(self, i) = extract(pre2, i)

\* The round trip on a vector of several words whose lane 0 was not zero.
C7_Witness ==
    /\ op2 = "shift_left_1"
    /\ op.name = "shift_right_1"
    /\ pre2.len > Shl5(2)
    /\ extract(pre2, 0) # 0
    /\ extract(self, 0) = 0

\* The lane an insert_last_* writes, counted back from the end: none for any
\* other operation.
InsertBack(name) ==
    CASE name = "insert_last_0" -> 0
      [] name = "insert_last_1" -> 1
      [] name = "insert_last_2" -> 2
      [] name = "insert_last_max" -> 0
      [] OTHER -> -1

InsertedByte(rec) ==
    IF rec.name = "insert_last_max" THEN 127 ELSE rec.val % 256

\* C8 as claimed: for len >= 3, insert_last_0/1/2(val) set the logical lanes
\* len - 1, len - 2, len - 3 to val mod 256, insert_last_max sets lane len - 1
\* to 127, and every other lane is unchanged.
C8_InsertLastLogical ==
    (InsertBack(op.name) >= 0 /\ pre.self.len >= 3) =>
        \A i \in LanesOf(self) :
            extract(self, i) = IF i = pre.self.len - 1 - InsertBack(op.name)
                               THEN InsertedByte(op)
                               ELSE extract(pre.self, i)

\* C8 amended: on a vector of at least one word, insert_last_0/1/2(val) set the
\* lanes upper_bound() - 1, upper_bound() - 2, upper_bound() - 3 (bytes 31, 30
\* and 29 of the last word) to val mod 256, insert_last_max sets lane
\* upper_bound() - 1 to 127, and every other lane is unchanged.
C8_InsertLastPhysical ==
    InsertBack(op.name) >= 0 =>
        /\ upper_bound(self) = upper_bound(pre.self)
        /\ \A i \in LanesOf(self) :
              extract(self, i) = IF i = upper_bound(self) - 1 - InsertBack(op.name)
                                 THEN InsertedByte(op)
                                 ELSE extract(pre.self, i)

\* insert_last_1 of a value above 255 on a vector whose length is no multiple
\* of 32: the byte went to lane upper_bound() - 2, and lane len - 2 kept its
\* value.
C8_Witness ==
    /\ op.name = "insert_last_1"
    /\ op.val > 255
    /\ pre.self.len >= 3
    /\ And31(pre.self.len) # 0
    /\ extract(self, upper_bound(self) - 2) = op.val % 256
    /\ extract(pre.self, upper_bound(self) - 2) # op.val % 256
    /\ extract(self, pre.self.len - 2) # op.val % 256

\* The lane step i of a slow_loadu call writes.
SlowLane(rec, i) == IF rec.reverse THEN rec.idx - i ELSE rec.idx + i

\* C9: slow_loadu(idx, ptr, len, reverse) ends with lane idx + i (idx - i when
\* reverse) holding ptr[i] for every i < len, and every other lane unchanged.
C9_SlowLoadu ==
    op.name = "slow_loadu" =>
        /\ upper_bound(self) = upper_bound(pre.self)
        /\ \A i \in 0 .. (op.len - 1) :
              extract(self, SlowLane(op, i)) = Deref(op.ptr, i)
        /\ \A j \in LanesOf(self) \ {SlowLane(op, i) : i \in 0 .. (op.len - 1)} :
              extract(self, j) = extract(pre.self, j)

\* C9 for the forward direction alone, which the code does satisfy.
SlowLoaduForward == (op.name = "slow_loadu" /\ ~op.reverse) => C9_SlowLoadu

\* C10: after self.blendv(a, b) lane i of self is b's lane i where the top bit
\* of the mask's lane i was set and a's lane i otherwise; a and b are unchanged.
C10_Blendv ==
    op.name = "blendv" =>
        /\ upper_bound(self) = upper_bound(pre.self)
        /\ \A i \in LanesOf(self) :
              extract(self, i) = IF HighBitSet(extract(pre.self, i))
                                 THEN extract(pre.b, i) ELSE extract(pre.a, i)
        /\ a = pre.a
        /\ b = pre.b

\* A blend of several words under a mask that holds, besides bytes with the
\* top bit set, non-zero bytes with the top bit clear, and in which both a's
\* and b's bytes were taken.
C10_Witness ==
    /\ op.name = "blendv"
    /\ Len(self.v) >= 2
    /\ \E i \in LanesOf(self) : /\ extract(pre.self, i) \in 1 .. 127
                                /\ extract(self, i) = extract(a, i)
                                /\ extract(self, i) # extract(b, i)
    /\ \E i \in LanesOf(self) : /\ extract(pre.self, i) \in 128 .. 254
                                /\ extract(self, i) = extract(b, i)
                                /\ extract(self, i) # extract(a, i)

(***************************************************************************)
(* Properties of triple_min_length.  Costs and lengths are compared as the *)
(* signed bytes the epi8 instructions read, which on 0..127 is the order   *)
(* of the bytes themselves.                                                *)
(***************************************************************************)

Less(x, y) == AsI8(x) < AsI8(y)

Smaller(x, y) == IF Less(y, x) THEN y ELSE x

Larger(x, y) == IF Less(x, y) THEN y ELSE x

\* Stage 1: the length that goes with min(a_gap, b_gap).
StageOneLength(ag, bg, al, bl) ==
    IF ag = bg THEN Larger(al, bl) ELSE IF Less(ag, bg) THEN al ELSE bl

\* Stage 2: the length that goes with min(sub, m1), l1 being stage 1's length.
StageTwoLength(s, m1, sl, l1) ==
    IF s = m1 THEN Larger(sl, l1) ELSE IF Less(s, m1) THEN sl ELSE l1

\* C4: in every lane triple_min_length writes min(sub, min(a_gap, b_gap)) to
\* res_min and to res_length the length of the two left-associated stages
\* (the larger length on a tie of costs, else the length of the smaller cost);
\* the six operands are left unchanged.
C4_TripleMinLength ==
    tml.called =>
        /\ TmlOperands(tml) = tml.args
        /\ upper_bound(tml.res_min) = upper_bound(tml.sub)
        /\ upper_bound(tml.res_length) = upper_bound(tml.sub)
        /\ \A i \in LanesOf(tml.sub) :
              LET s  == extract(tml.args.sub, i)
                  ag == extract(tml.args.a_gap, i)
                  bg == extract(tml.args.b_gap, i)
                  sl == extract(tml.args.sub_length, i)
                  al == extract(tml.args.a_gap_length, i)
                  bl == extract(tml.args.b_gap_length, i)
                  m1 == Smaller(ag, bg)
              IN  /\ extract(tml.res_min, i) = Smaller(s, m1)
                  /\ extract(tml.res_length, i) =
                        StageTwoLength(s, m1, sl, StageOneLength(ag, bg, al, bl))

\* The spec's scenario in some lane after the call: costs 5, 5, 5 with lengths
\* 3 (sub), 7 (a_gap) and 4 (b_gap) gave cost 5 and length 7.
C4_Witness ==
    /\ tml.called
    /\ \E i \in LanesOf(tml.sub) :
          /\ extract(tml.sub, i) = 5
          /\ extract(tml.a_gap, i) = 5
          /\ extract(tml.b_gap, i) = 5
          /\ extract(tml.sub_length, i) = 3
          /\ extract(tml.a_gap_length, i) = 7
          /\ extract(tml.b_gap_length, i) = 4
          /\ extract(tml.res_min, i) = 5
          /\ extract(tml.res_length, i) = 7

\* The simultaneous tie-break: the largest of the lengths of all candidates
\* whose cost is the minimum cost.
GlobalTieBreak(s, ag, bg, sl, al, bl) ==
    LET m     == Smaller(s, Smaller(ag, bg))
        cands == {c \in {<<s, sl>>, <<ag, al>>, <<bg, bl>>} : c[1] = m}
    IN  CHOOSE l \in {c[2] : c \in cands} :
            \A c \in cands : ~Less(l, c[2])

\* C5 as claimed: there are lane inputs with sub = a_gap = b_gap for which the
\* length triple_min_length writes differs from the simultaneous tie-break.
\* The inputs range over every cost and every three lengths of the model,
\* broadcast into a word; the claim is looked at once a call has been made.
C5_OrderChangesResult ==
    tml.called =>
        \E k \in 1 .. Len(TmlCosts) :
            \E sl \in 1 .. Len(TmlLens), al \in 1 .. Len(TmlLens),
               bl \in 1 .. Len(TmlLens) :
                LET c == TmlCosts[k]
                    r == TripleMinWord(mm256_set1_epi8(c), mm256_set1_epi8(c),
                                       mm256_set1_epi8(c),
                                       mm256_set1_epi8(TmlLens[sl]),
                                       mm256_set1_epi8(TmlLens[al]),
                                       mm256_set1_epi8(TmlLens[bl]))
                IN  r.res_length[1] # GlobalTieBreak(c, c, c, TmlLens[sl],
                                                     TmlLens[al], TmlLens[bl])

\* C5 amended: in every lane, those with sub = a_gap = b_gap included, the
\* length triple_min_length writes is the simultaneous tie-break's: the
\* pairwise order of the two stages does not change the result.
C5_PairwiseIsGlobal ==
    tml.called =>
        \A i \in LanesOf(tml.sub) :
            extract(tml.res_length, i) =
                GlobalTieBreak(extract(tml.sub, i), extract(tml.a_gap, i),
                               extract(tml.b_gap, i), extract(tml.sub_length, i),
                               extract(tml.a_gap_length, i),
                               extract(tml.b_gap_length, i))

\* A call with a lane where all three costs tie, the three lengths differ and
\* the largest of them is sub's, which only the second stage sees.
C5_Witness ==
    /\ tml.called
    /\ \E i \in LanesOf(tml.sub) :
          /\ extract(tml.sub, i) = extract(tml.a_gap, i)
          /\ extract(tml.a_gap, i) = extract(tml.b_gap, i)
          /\ Less(extract(tml.a_gap_length, i), extract(tml.b_gap_length, i))
          /\ Less(extract(tml.b_gap_length, i), extract(tml.sub_length, i))
          /\ extract(tml.res_length, i) = extract(tml.sub_length, i)

(***************************************************************************)
(* Properties of the mismatch kernels.                                     *)
(***************************************************************************)

\* The byte-by-byte count: the indices below len at which the buffers differ.
Mismatches(a_ptr, b_ptr, len) ==
    Cardinality({i \in 0 .. (len - 1) : Deref(a_ptr, i) # Deref(b_ptr, i)})

\* C1: count_mismatches(a, b, len) and mm_count_mismatches(a, b, len) both
\* return the number of indices i < len with a[i] # b[i], and so agree.
C1_CountsAgree ==
    LET reference == Mismatches(CntA(cnt), CntB(cnt), cnt.len)
    IN  /\ "mm_count_mismatches" \in cnt.called => cnt.mm = reference
        /\ "count_mismatches" \in cnt.called => cnt.cm = reference
        /\ {"mm_count_mismatches", "count_mismatches"} \subseteq cnt.called
              => cnt.mm = cnt.cm

\* Both kernels have returned on buffers of more than one batch, with words
\* left over after the last batch and bytes left over after the last word,
\* some of the bytes matching and some not.
C1_Witness ==
    /\ {"mm_count_mismatches", "count_mismatches"} \subseteq cnt.called
    /\ cnt.len > Shl5(BatchWords)
    /\ Shr5(cnt.len) % BatchWords # 0
    /\ And31(cnt.len) # 0
    /\ cnt.cm > 0
    /\ cnt.cm < cnt.len
    /\ cnt.mm = cnt.cm

\* C2: vector_count_mismatches(a, b_ptr) returns the number of lanes i below
\* a.upper_bound() at which a's lane differs from b_ptr[i], the lanes from
\* a.len on included.
C2_VectorCount ==
    "vector_count_mismatches" \in cnt.called =>
        LET x == loadu(CntA(cnt), cnt.len)
        IN  cnt.vcm = Cardinality({i \in LanesOf(x) :
                                      extract(x, i) # Deref(CntB(cnt), i)})

\* The kernel has returned on a vector of more than 255 words whose last word
\* is partly padding, and it counted mismatches in the padding: more than
\* the buffers have below len.
C2_Witness ==
    /\ "vector_count_mismatches" \in cnt.called
    /\ WordCount(cnt.len) > BatchWords
    /\ And31(cnt.len) # 0
    /\ cnt.vcm > Mismatches(CntA(cnt), CntB(cnt), cnt.len)

(***************************************************************************)
(* Properties of the broadcast constructors.                               *)
(***************************************************************************)

\* C11: repeating(val, len) creates exactly ceil(len / 32) words, so that
\* upper_bound() = 32 * ceil(len / 32) >= len, and every lane below
\* upper_bound(), those from len on included, holds val mod 256;
\* repeating_max(len) does the same with 127 in every lane.
C11_Repeating ==
    op.name \in {"repeating", "repeating_max"} =>
        /\ self.len = op.len
        /\ Len(self.v) = (op.len + 31) \div 32
        /\ upper_bound(self) = 32 * ((op.len + 31) \div 32)
        /\ upper_bound(self) >= op.len
        /\ \A i \in LanesOf(self) :
              extract(self, i) = IF op.name = "repeating" THEN op.val % 256
                                 ELSE 127

\* A broadcast of a value above 255 over a length of more than one word that
\* is no multiple of 32: the last lane of the last word, beyond len, holds the
\* value's low byte.
C11_Witness ==
    /\ op.name = "repeating"
    /\ op.val > 255
    /\ op.len > LaneCount
    /\ And31(op.len) # 0
    /\ upper_bound(self) > op.len
    /\ extract(self, upper_bound(self) - 1) = op.val % 256
    /\ op.val % 256 # 0

(***************************************************************************)
(* Properties of the byte counters of the batched kernels.                 *)
(***************************************************************************)

\* The words a loop has gone through since curr was last set to zeros.
WordsSinceReset ==
    IF cnt.pc = "batch" THEN cnt.j - cnt.i * BatchWords
    ELSE cnt.j - LoopRefreshLen(cnt) * BatchWords

\* The step-by-step kernels return what the kernels return.
LoopReturnsKernel ==
    cnt.pc = "done" =>
        cnt.res = IF cnt.kernel = "count_mismatches"
                  THEN count_mismatches(CntA(cnt), CntB(cnt), cnt.len)
                  ELSE vector_count_mismatches(LoopVector(cnt), CntB(cnt))

\* C12: at every step of the batch loops and of the leftover loop each byte of
\* curr is the number of matching words seen in its lane since curr was last
\* reset, and is at most 255 (it never wraps); a batch goes through at most 255
\* words and the leftover loop through fewer than 255 before the counters are
\* folded into sad.
C12_CountersNeverWrap ==
    cnt.pc \in {"batch", "leftover"} =>
        /\ \A k \in 1 .. LaneCount : /\ cnt.curr[k] = cnt.seen[k]
                                      /\ cnt.seen[k] <= 255
        /\ cnt.pc = "batch" => WordsSinceReset <= 255
        /\ cnt.pc = "leftover" => WordsSinceReset < 255

\* The end of a second full batch of 255 words that matched in every lane:
\* every counter stands at 255, and sad already holds the first batch.
C12_Witness ==
    /\ cnt.pc = "batch"
    /\ cnt.i = 1
    /\ WordsSinceReset = 255
    /\ \A k \in 1 .. LaneCount : cnt.curr[k] = 255 /\ cnt.seen[k] = 255
    /\ SadTotal(cnt.sad) = 255 * 32

(***************************************************************************)
(* Properties of cmpgt, min and max.                                       *)
(***************************************************************************)

\* x before y, as signed bytes or as the unsigned values extract returns.
CmpLess(signed, x, y) == IF signed THEN Less(x, y) ELSE x < y

\* Lane i of the vector returned is what that order makes of lanes i of the
\* operands.
CmpLaneIs(signed, i) ==
    LET x == extract(pre.a, i)
        y == extract(pre.b, i)
    IN  CASE op.name = "min" ->
               extract(self, i) = IF CmpLess(signed, y, x) THEN y ELSE x
          [] op.name = "max" ->
               extract(self, i) = IF CmpLess(signed, x, y) THEN y ELSE x
          [] op.name = "cmpgt" ->
               extract(self, i) = IF CmpLess(signed, y, x) THEN 255 ELSE 0

\* C13 as claimed: the lanes being the unsigned values 0..255 extract returns,
\* lane i of min(a, b) is the smaller and lane i of max(a, b) the larger of a's
\* and b's lane i, and lane i of cmpgt(a, b) is 255 exactly when a's lane i is
\* greater than b's and 0 otherwise, values above 127 included.
C13_UnsignedOrder ==
    op.name \in {"min", "max", "cmpgt"} =>
        /\ upper_bound(self) = upper_bound(pre.a)
        /\ \A i \in LanesOf(self) : CmpLaneIs(FALSE, i)

\* C13 amended: the same with every lane value read as a signed byte (a value
\* x above 127 as x - 256), which is the unsigned order on values 0..127 only.
C13_SignedOrder ==
    op.name \in {"min", "max", "cmpgt"} =>
        /\ upper_bound(self) = upper_bound(pre.a)
        /\ \A i \in LanesOf(self) : CmpLaneIs(TRUE, i)

\* min returned, in some lane of a vector of several words, the operand's value
\* above 127 where the other operand's was at most 127, and in another lane
\* the smaller of two values that are both at most 127.
C13_Witness ==
    /\ op.name = "min"
    /\ Len(self.v) >= 2
    /\ \E i \in LanesOf(self) : /\ extract(pre.a, i) > 127
                                /\ extract(pre.b, i) <= 127
                                /\ extract(self, i) = extract(pre.a, i)
    /\ \E i \in LanesOf(self) : /\ extract(pre.a, i) < extract(pre.b, i)
                                /\ extract(pre.b, i) <= 127
                                /\ extract(self, i) = extract(pre.a, i)

=============================================================================
